---- MODULE Spec2Model ----
(***************************************************************************)
(* Model of turbopack/crates/turbo-tasks/src/vc/resolved.rs: the           *)
(* ResolvedVc wrapper, its constructors, upcast and the asynchronous       *)
(* try_sidecast / try_downcast / try_downcast_type calls, the identity     *)
(* impls (PartialEq, Hash, TraceRawVcs) and the ResolvedValue marker       *)
(* trait with its impls.  Vc, the task store and the value-type registry   *)
(* live outside resolved.rs; they are modelled from the interface the      *)
(* specification gives for them (section 6).                               *)
(***************************************************************************)
EXTENDS Integers, Sequences, FiniteSets

VARIABLES
    cells,      \* the store: cell id -> [status, tag]
    handles,    \* every ResolvedVc value that exists
    made,       \* those produced by cell / cell_private / default, by upcast of
                \* such a handle, or as the match of a try_* call
    calls,      \* the try_* calls: call slot -> [op, this, K, state, out]
    obs,        \* the last eq / hash / trace_raw_vcs observation
    ty,         \* the type term under construction (ResolvedValue judgement)
    judged      \* whether ty is judged to satisfy ResolvedValue

vars == <<cells, handles, made, calls, obs, ty, judged>>

(* ------------------------------ bounds --------------------------------- *)

\* cells, handles and calls the program may hold at once, all together
MaxLive == 4
\* nesting depth of the type terms judged
MaxDepth == 2

(* ------------------- value types, value traits, registry --------------- *)

ValueTypes == {"Int", "Str"}
ValueTraits == {"Display", "Number"}
StaticTypes == ValueTypes \cup ValueTraits

\* a type tag the registry does not know
UnknownTag == "Blob"

\* the per-type registry: concrete type tag -> the value traits it implements
Registry == [t \in ValueTypes |-> IF t = "Int" THEN {"Display", "Number"} ELSE {"Display"}]

\* value trait -> its supertraits
Supertraits == [k \in ValueTraits |-> IF k = "Number" THEN {"Display"} ELSE {}]

\* T: Upcast<K>, the statically proven relation
Upcast(T, K) ==
    /\ K \in ValueTraits
    /\ \/ T \in ValueTypes /\ K \in Registry[T]
       \/ T \in ValueTraits /\ K \in Supertraits[T]

\* a cell holding concrete type C may be viewed through static type T
Satisfies(C, T) == C = T \/ Upcast(C, T)

(* ------------------------- the external store -------------------------- *)

CellIds == 1..MaxLive

FreeCell == [status |-> "free", tag |-> "none"]

\* poll results of a future: Pending, or Ready with Err / Ok(None) / Ok(Some(v))
Pending == [kind |-> "Pending", val |-> <<>>]
Err == [kind |-> "Err", val |-> <<>>]
OkNone == [kind |-> "None", val |-> <<>>]
OkSome(v) == [kind |-> "Some", val |-> <<v>>]

\* allocate_cell(content) -> Handle: the direct construction path, synchronous
allocate_cell(c, T) == [cell |-> c, ty |-> T]

\* read_concrete_type_tag(handle): available once the handle is resolved
read_concrete_type_tag(vc) == cells[vc.cell].tag

\* resolve(handle): suspends until the producing task completes; fails if the
\* task failed or was cancelled; yields the settled (cell, concrete type tag)
resolve(vc) ==
    LET st == cells[vc.cell].status IN
    IF st = "done" THEN OkSome([cell |-> vc.cell, tag |-> read_concrete_type_tag(vc)])
    ELSE IF st \in {"failed", "cancelled"} THEN Err
    ELSE Pending

\* type_implements(tag, target): a registry lookup that fails on an unknown tag
type_implements(tag, K) ==
    IF tag \notin DOMAIN Registry THEN Err
    ELSE IF K \in ValueTraits
         THEN (IF K \in Registry[tag] THEN OkSome(TRUE) ELSE OkSome(FALSE))
         ELSE (IF tag = K THEN OkSome(TRUE) ELSE OkSome(FALSE))

\* Vc::cell / Vc::cell_private
Vc_cell(c, T) == allocate_cell(c, T)

\* Vc::upcast: pure retagging of the phantom type
Vc_upcast(vc, K) == [cell |-> vc.cell, ty |-> K]

\* the resolution-then-lookup step shared by the three Vc::try_resolve_* calls
VcTryResolve(vc, K) ==
    LET r == resolve(vc) IN
    IF r.kind = "Pending" THEN Pending
    ELSE IF r.kind = "Err" THEN Err
    ELSE LET m == type_implements(r.val[1].tag, K) IN
         IF m.kind = "Err" THEN Err
         ELSE IF m.val[1] THEN OkSome([cell |-> r.val[1].cell, ty |-> K])
         ELSE OkNone

Vc_try_resolve_sidecast(vc, K) == VcTryResolve(vc, K)
Vc_try_resolve_downcast(vc, K) == VcTryResolve(vc, K)
Vc_try_resolve_downcast_type(vc, K) == VcTryResolve(vc, K)

\* Vc's PartialEq, Hash and TraceRawVcs: all on the cell identity alone
Vc_eq(a, b) == a.cell = b.cell
Vc_hash(vc) == (vc.cell * 31 + 7) % 256
Vc_trace_raw_vcs(vc, ctx) == Append(ctx, vc.cell)

(* ------------------------------ ResolvedVc ----------------------------- *)

\* struct ResolvedVc<T> { node: Vc<T> }
ResolvedVc(node) == [node |-> node]

\* impl PartialEq: self.node == other.node
eq(a, b) == Vc_eq(a.node, b.node)

\* a hash that also feeds the type parameter
hash_typed(r) == (Vc_hash(r.node) + Len(r.node.ty)) % 256

\* impl Hash: self.node.hash(state)
hash(r) == Vc_hash(r.node)

\* impl TraceRawVcs: TraceRawVcs::trace_raw_vcs(&self.node, trace_context)
trace_raw_vcs(r, ctx) == Vc_trace_raw_vcs(r.node, ctx)

\* ResolvedVc::cell_private(inner)
cell_private(c, T) == ResolvedVc(Vc_cell(c, T))

\* ResolvedVc::cell(inner)
cell(c, T) == ResolvedVc(Vc_cell(c, T))

\* Default::default() == Self::cell(Default::default())
default(c, T) == cell(c, T)

\* an upcast that forgets to retag the node
upcast_untagged(this, K) == this

\* ResolvedVc::upcast(this)
upcast(this, K) == ResolvedVc(Vc_upcast(this.node, K))

\* `.ok().flatten()` in place of `?`: an error becomes None
AwaitTryMap_swallow(r) ==
    IF r.kind = "Pending" THEN Pending
    ELSE IF r.kind \in {"Err", "None"} THEN OkNone
    ELSE OkSome(ResolvedVc(r.val[1]))

\* polled once, not awaited: an inner future that is not ready yields None
AwaitTryMap_nowait(r) ==
    IF r.kind \in {"Pending", "None"} THEN OkNone
    ELSE IF r.kind = "Err" THEN Err
    ELSE OkSome(ResolvedVc(r.val[1]))

\* `fut.await?.map(|node| ResolvedVc { node })` on a polled inner future
AwaitTryMap(r) ==
    IF r.kind = "Pending" THEN Pending
    ELSE IF r.kind = "Err" THEN Err
    ELSE IF r.kind = "None" THEN OkNone
    ELSE OkSome(ResolvedVc(r.val[1]))

\* a sidecast that retags the node without resolving it
try_sidecast_unresolved(this, K) == OkSome(ResolvedVc(Vc_upcast(this.node, K)))

\* a downcast that resolves the node and retags it without the type check
try_downcast_type_unchecked(this, K) ==
    IF resolve(this.node).kind = "Some"
    THEN OkSome(ResolvedVc(Vc_upcast(this.node, K)))
    ELSE AwaitTryMap(Vc_try_resolve_downcast_type(this.node, K))

try_sidecast(this, K) == AwaitTryMap(Vc_try_resolve_sidecast(this.node, K))
try_downcast(this, K) == AwaitTryMap(Vc_try_resolve_downcast(this.node, K))
try_downcast_type(this, K) == AwaitTryMap(Vc_try_resolve_downcast_type(this.node, K))

CastOps == {"try_sidecast", "try_downcast", "try_downcast_type"}

\* the where-clauses of the three calls
CastBound(op, T, K) ==
    /\ T \in ValueTraits
    /\ CASE op = "try_sidecast" -> K \in ValueTraits
         [] op = "try_downcast" -> K \in ValueTraits /\ Upcast(K, T)
         [] OTHER -> K \in ValueTypes /\ Upcast(K, T)

PollCall(c) ==
    CASE c.op = "try_sidecast" -> try_sidecast(c.this, c.K)
      [] c.op = "try_downcast" -> try_downcast(c.this, c.K)
      [] OTHER -> try_downcast_type(c.this, c.K)

(* ---------------------------- ResolvedValue ---------------------------- *)

\* a type term: a type constructor applied to type arguments
Leaf(n) == [con |-> n, args |-> <<>>]
App1(n, a) == [con |-> n, args |-> <<a>>]
App2(n, a, b) == [con |-> n, args |-> <<a, b>>]
App3(n, a, b, c) == [con |-> n, args |-> <<a, b, c>>]

\* impl_resolved_tuple!(E D C B A Z Y X W V U T): tuples of up to 12 components
TupleMax == 12

\* Option<T> without the bound on T
ImplBounds_OptionUnbound ==
    [con \in {"u32", "String", "ResolvedVc", "Option", "Vec", "HashSet", "HashMap",
              "BTreeMap", "Box", "Result", "PhantomData", "Ref"} |->
        CASE con \in {"u32", "String", "PhantomData", "Option"} -> {}
          [] con \in {"HashMap", "BTreeMap", "Result"} -> {1, 2}
          [] OTHER -> {1}]

\* ResolvedVc<T> without the bound on T
ImplBounds_ResolvedVcUnbound ==
    [con \in {"u32", "String", "ResolvedVc", "Option", "Vec", "HashSet", "HashMap",
              "BTreeMap", "Box", "Result", "PhantomData", "Ref"} |->
        CASE con \in {"u32", "String", "PhantomData", "ResolvedVc"} -> {}
          [] con \in {"HashMap", "BTreeMap", "Result"} -> {1, 2}
          [] OTHER -> {1}]

\* The `unsafe impl ... ResolvedValue for ...` items: type constructor -> the
\* parameters bound by `: ResolvedValue`.  A constructor that is not listed has
\* no impl.
\*   "u32"         impl_resolved!(i8, ..., usize), the atomics
\*   "String"      impl_resolved!((), str, String, Duration, anyhow::Error, RcStr),
\*                 Path, PathBuf, serde_json::Value
\*   "ResolvedVc"  ResolvedVc<T>
\*   "Option"      Option<T>
\*   "Vec"         Vec<T>, [T; N], [T], BTreeSet<T>
\*   "HashSet"     HashSet<T, S>, AutoSet<T, S, I>, IndexSet<T, S>
\*   "HashMap"     HashMap<K, V, S>, AutoMap<K, V, S, I>, IndexMap<K, V, S>
\*   "BTreeMap"    BTreeMap<K, V>
\*   "Box"         Box<T>, Arc<T>, Mutex<T>, RefCell<T>
\*   "Result"      Result<T, E>
\*   "PhantomData" PhantomData<T>
\*   "Ref"         &T, &mut T
\* "Vc" (Vc<T>) and "PlainValue" (a value type that is not declared `resolved`)
\* are the types without an impl.
ImplBounds ==
    [con \in {"u32", "String", "ResolvedVc", "Option", "Vec", "HashSet", "HashMap",
              "BTreeMap", "Box", "Result", "PhantomData", "Ref"} |->
        CASE con \in {"u32", "String", "PhantomData"} -> {}
          [] con \in {"HashMap", "BTreeMap", "Result"} -> {1, 2}
          [] OTHER -> {1}]

\* the parameters of t's constructor that must themselves be ResolvedValue;
\* <<FALSE, {}>> when the constructor has no impl
Bound(t) ==
    IF t.con = "Tuple"
    THEN <<Len(t.args) >= 1 /\ Len(t.args) <= TupleMax, 1..Len(t.args)>>
    ELSE IF t.con \in DOMAIN ImplBounds THEN <<TRUE, ImplBounds[t.con]>>
    ELSE <<FALSE, {}>>

\* trait resolution of `t: ResolvedValue`
RECURSIVE ResolvedValue(_)
ResolvedValue(t) ==
    /\ Bound(t)[1]
    /\ \A i \in Bound(t)[2] : ResolvedValue(t.args[i])

\* the types that satisfy VcValueType among the leaves
ValueTypeLeaves == {"u32", "String", "PlainValue"}
Leaves == {Leaf(n) : n \in ValueTypeLeaves}
\* what fills the other parameters of a constructor with several
Fillers == {Leaf("u32"), App1("Vc", Leaf("u32"))}

RECURSIVE Depth(_)
Depth(t) ==
    IF Len(t.args) = 0 THEN 0
    ELSE 1 + (CHOOSE d \in {Depth(t.args[i]) : i \in 1..Len(t.args)} :
                 \A i \in 1..Len(t.args) : Depth(t.args[i]) <= d)

\* the types made of t by one constructor
Wraps(t) ==
    {App1(n, t) : n \in {"ResolvedVc", "Vc", "Option", "Vec", "Box", "Ref",
                         "PhantomData", "Tuple"}}
    \cup UNION {{App2(n, t, f), App2(n, f, t)} :
                    n \in {"HashSet", "BTreeMap", "Result", "Tuple"}, f \in Fillers}
    \cup UNION {{App3(n, t, f, f), App3(n, f, t, f), App3(n, f, f, t)} :
                    n \in {"HashMap", "Tuple"}, f \in Fillers}

(* ------------------------------- states -------------------------------- *)

CallIds == 1..MaxLive
NoHandle == ResolvedVc([cell |-> 0, ty |-> "none"])
\* a call slot nobody has called through
Idle == [op |-> "none", this |-> NoHandle, K |-> "none", state |-> "idle", out |-> Pending]

\* a call whose future was dropped: nothing of it is left
Dropped == [Idle EXCEPT !.state = "cancelled"]

NoObs == [seen |-> FALSE, a |-> NoHandle, b |-> NoHandle, eq |-> FALSE,
          ha |-> 0, hb |-> 0, tr |-> <<>>]

Init ==
    /\ cells = [c \in CellIds |-> FreeCell]
    /\ handles = {}
    /\ made = {}
    /\ calls = [i \in CallIds |-> Idle]
    /\ obs = NoObs
    /\ ty = Leaf("u32")
    /\ judged = ResolvedValue(ty)

Free == {c \in CellIds : cells[c].status = "free"}
\* the store hands out cell ids in order
NextFree == CHOOSE c \in Free : \A d \in Free : c <= d

Live ==
    Cardinality({c \in CellIds : cells[c].status # "free"}) + Cardinality(handles)
        + Cardinality({i \in CallIds : calls[i].state \in {"pending", "settled"}})

\* room for n more cells, handles or calls
Room(n) == Live + n <= MaxLive

Construct(h, T) ==
    /\ Free # {}
    /\ Room(2)
    /\ cells' = [cells EXCEPT ![NextFree] = [status |-> "done", tag |-> T]]
    /\ handles' = handles \cup {h}
    /\ made' = made \cup {h}
    /\ UNCHANGED <<calls, obs, ty, judged>>

CellPrivate == \E T \in ValueTypes : Free # {} /\ Construct(cell_private(NextFree, T), T)
Cell == \E T \in ValueTypes : Free # {} /\ Construct(cell(NextFree, T), T)
Default == \E T \in ValueTypes : Free # {} /\ Construct(default(NextFree, T), T)

UpcastStep ==
    \E this \in handles, K \in ValueTraits :
        /\ Upcast(this.node.ty, K)
        /\ Room(1)
        /\ handles' = handles \cup {upcast(this, K)}
        /\ made' = IF this \in made THEN made \cup {upcast(this, K)} ELSE made
        /\ UNCHANGED <<cells, calls, obs, ty, judged>>

\* the store is type-sound: the phantom type T of a Vc<T> agrees with the
\* concrete type C its cell holds (an unregistered tag hides behind a trait)
Sound(C, T) == Satisfies(C, T) \/ (C = UnknownTag /\ T \in ValueTraits)

\* the Vc<T> values that can name cell c
VcsOf(c) ==
    {[cell |-> c, ty |-> T] : T \in {T \in StaticTypes :
        cells[c].status = "done" => Sound(cells[c].tag, T)}}

\* #[derive(Deserialize)] #[serde(transparent)]: the decoded Vc is wrapped as it
\* is, whatever the state of the task that produces its cell
Deserialize ==
    \E c \in CellIds :
        /\ cells[c].status # "free"
        /\ \E vc \in VcsOf(c) :
               /\ Room(1)
               /\ handles' = handles \cup {ResolvedVc(vc)}
        /\ UNCHANGED <<cells, made, calls, obs, ty, judged>>

(* the task-execution collaborator: it alone writes the store *)

\* a task starts running; its output cell is not written yet
Spawn ==
    /\ Free # {}
    /\ Room(1)
    /\ cells' = [cells EXCEPT ![NextFree] = [status |-> "pending", tag |-> "none"]]
    /\ UNCHANGED <<handles, made, calls, obs, ty, judged>>

\* the task completes and stores a value of concrete type C
TaskComplete ==
    \E c \in CellIds, C \in ValueTypes \cup {UnknownTag} :
        /\ cells[c].status = "pending"
        /\ \A h \in handles : h.node.cell = c => Sound(C, h.node.ty)
        /\ cells' = [cells EXCEPT ![c] = [status |-> "done", tag |-> C]]
        /\ UNCHANGED <<handles, made, calls, obs, ty, judged>>

TaskFail ==
    \E c \in CellIds :
        /\ cells[c].status = "pending"
        /\ cells' = [cells EXCEPT ![c].status = "failed"]
        /\ UNCHANGED <<handles, made, calls, obs, ty, judged>>

TaskCancel ==
    \E c \in CellIds :
        /\ cells[c].status = "pending"
        /\ cells' = [cells EXCEPT ![c].status = "cancelled"]
        /\ UNCHANGED <<handles, made, calls, obs, ty, judged>>

(* the asynchronous calls *)

IdleSlots == {i \in CallIds : calls[i].state = "idle"}

\* calling an async fn creates its future, which has not run yet
Issue ==
    \E op \in CastOps, this \in handles, K \in StaticTypes :
        /\ IdleSlots # {}
        /\ Room(1)
        /\ CastBound(op, this.node.ty, K)
        /\ calls' = [calls EXCEPT ![CHOOSE i \in IdleSlots : \A j \in IdleSlots : i <= j] =
                        [op |-> op, this |-> this, K |-> K, state |-> "pending", out |-> Pending]]
        /\ UNCHANGED <<cells, handles, made, obs, ty, judged>>

\* the handles a poll result carries
Carried(r) == {r.val[k] : k \in 1..Len(r.val)}

\* a poll that publishes its result while the call still counts as pending
Settle_partial(i) ==
    /\ calls[i].state = "pending"
    /\ PollCall(calls[i]).kind # "Pending"
    /\ calls' = [calls EXCEPT ![i].out = PollCall(calls[i])]
    /\ handles' = handles \cup Carried(PollCall(calls[i]))
    /\ made' = made \cup Carried(PollCall(calls[i]))
    /\ UNCHANGED <<cells, obs, ty, judged>>

\* the future is polled and is ready: the call returns
Settle(i) ==
    /\ calls[i].state = "pending"
    /\ PollCall(calls[i]).kind # "Pending"
    /\ calls' = [calls EXCEPT ![i].state = "settled", ![i].out = PollCall(calls[i])]
    /\ handles' = handles \cup Carried(PollCall(calls[i]))
    /\ made' = made \cup Carried(PollCall(calls[i]))
    /\ UNCHANGED <<cells, obs, ty, judged>>

\* a drop that also cancels the task the call was waiting for
Cancel_upstream(i) ==
    /\ calls[i].state = "pending"
    /\ calls' = [calls EXCEPT ![i] = Dropped]
    /\ cells' = [cells EXCEPT ![calls[i].this.node.cell].status =
                    IF @ = "pending" THEN "cancelled" ELSE @]
    /\ UNCHANGED <<handles, made, obs, ty, judged>>

\* the future is dropped before it is ready
Cancel(i) ==
    /\ calls[i].state = "pending"
    /\ calls' = [calls EXCEPT ![i] = Dropped]
    /\ UNCHANGED <<cells, handles, made, obs, ty, judged>>

SettleStep == \E i \in CallIds : Settle(i)
CancelStep == \E i \in CallIds : Cancel(i)

(* observing identity *)

\* a == b, the hashes of both and the raw-structure trace of both, for two
\* handles of one type
Compare ==
    \E a \in handles, b \in handles :
        /\ a.node.ty = b.node.ty
        /\ obs' = [seen |-> TRUE, a |-> a, b |-> b, eq |-> eq(a, b),
                   ha |-> hash(a), hb |-> hash(b),
                   tr |-> trace_raw_vcs(b, trace_raw_vcs(a, <<>>))]
        /\ UNCHANGED <<cells, handles, made, calls, ty, judged>>

(* judging types *)

PickLeaf ==
    \E t \in Leaves :
        /\ ty' = t
        /\ judged' = ResolvedValue(t)
        /\ UNCHANGED <<cells, handles, made, calls, obs>>

Wrap ==
    \E t \in Wraps(ty) :
        /\ Depth(t) <= MaxDepth
        /\ ty' = t
        /\ judged' = ResolvedValue(t)
        /\ UNCHANGED <<cells, handles, made, calls, obs>>

Next ==
    \/ CellPrivate \/ Cell \/ Default \/ UpcastStep \/ Deserialize
    \/ Spawn \/ TaskComplete \/ TaskFail \/ TaskCancel
    \/ Issue \/ SettleStep \/ CancelStep

Spec == Init /\ [][Next]_vars

\* the handles and their identity, without the calls
NextIdentity ==
    \/ CellPrivate \/ Cell \/ Default \/ UpcastStep \/ Deserialize \/ Spawn \/ Compare

SpecIdentity == Init /\ [][NextIdentity]_vars

\* the judgement of types
NextResolvedValue == PickLeaf \/ Wrap

SpecResolvedValue == Init /\ [][NextResolvedValue]_vars

(* ------------------------------- claims -------------------------------- *)

Settled == {i \in CallIds : calls[i].state = "settled"}
CellOf(i) == cells[calls[i].this.node.cell]
\* the call's cell holds a value of a registered concrete type
Stored(i) == CellOf(i).status = "done" /\ CellOf(i).tag \in DOMAIN Registry

C2_FailureChannels ==
    \A i \in Settled :
        /\ (\/ CellOf(i).status \in {"failed", "cancelled"}
            \/ CellOf(i).status = "done" /\ CellOf(i).tag \notin DOMAIN Registry)
           => calls[i].out = Err
        /\ (Stored(i) /\ ~Satisfies(CellOf(i).tag, calls[i].K))
           => calls[i].out = OkNone

\* a call that waited for a task that then failed or was cancelled
C2_Witness ==
    \E i \in Settled :
        /\ CellOf(i).status \in {"failed", "cancelled"}
        /\ calls[i].out = Err

\* C3: on a cell that stores concrete type C, a cast to K matches exactly when C
\* satisfies K and is None otherwise; a match is a handle of type K that names
\* the cell of the input handle and is equal to it.
C3_CastCorrect ==
    \A i \in Settled :
        Stored(i) =>
            /\ calls[i].out.kind = "Some" <=> Satisfies(CellOf(i).tag, calls[i].K)
            /\ calls[i].out.kind \in {"Some", "None"}
            /\ calls[i].out.kind = "Some" =>
                   /\ calls[i].out.val[1].node.cell = calls[i].this.node.cell
                   /\ calls[i].out.val[1].node.ty = calls[i].K
                   /\ eq(calls[i].out.val[1], calls[i].this)

\* one cell, one cast of it that matched and one that did not
C3_Witness ==
    \E i \in Settled, j \in Settled :
        /\ calls[i].this = calls[j].this
        /\ Stored(i)
        /\ calls[i].out.kind = "Some"
        /\ calls[j].out = OkNone

C5_IdentityPreserved ==
    obs.seen =>
        /\ obs.eq <=> obs.a.node.cell = obs.b.node.cell
        /\ obs.eq => obs.ha = obs.hb
        /\ obs.ha = Vc_hash(obs.a.node)
        /\ obs.hb = Vc_hash(obs.b.node)
        /\ obs.tr = Vc_trace_raw_vcs(obs.b.node, Vc_trace_raw_vcs(obs.a.node, <<>>))

\* two handles of one type on different cells were compared
C5_Witness ==
    /\ obs.seen
    /\ obs.a # obs.b
    /\ ~obs.eq
    /\ obs.ha # obs.hb

\* a Vc anywhere in the type, type parameters that hold no data included
RECURSIVE EmbedsVc(_)
EmbedsVc(t) == t.con = "Vc" \/ \E i \in 1..Len(t.args) : EmbedsVc(t.args[i])

\* a Vc in a position that holds data: not under PhantomData, not as the
\* hasher of a hash set or hash map
RECURSIVE HoldsVc(_)
HoldsVc(t) ==
    CASE t.con = "Vc" -> TRUE
      [] t.con = "PhantomData" -> FALSE
      [] t.con = "HashSet" -> HoldsVc(t.args[1])
      [] t.con = "HashMap" -> HoldsVc(t.args[1]) \/ HoldsVc(t.args[2])
      [] OTHER -> \E i \in 1..Len(t.args) : HoldsVc(t.args[i])

\* Option<A>, (A, B) and maps from A to B are safe for safe A and B
C6_Closure ==
    /\ (ty.con = "Option" /\ ResolvedValue(ty.args[1])) => judged
    /\ (ty.con = "Tuple" /\ \A i \in 1..Len(ty.args) : ResolvedValue(ty.args[i])) => judged
    /\ (ty.con \in {"HashMap", "BTreeMap"} /\ ResolvedValue(ty.args[1])
            /\ ResolvedValue(ty.args[2])) => judged

\* C6 as stated: the closure rules, and a type that embeds a plain Vc is judged
\* unsafe whatever container, wrapper, tuple or phantom marker surrounds it.
C6_Original == C6_Closure /\ (EmbedsVc(ty) => ~judged)

\* C6 as amended: the closure rules, and a type that holds a plain Vc in a data
\* position (not as the parameter of a phantom marker, not as the hasher of a
\* hash set or hash map) is judged unsafe whatever surrounds it.
C6_PredicateClosure == C6_Closure /\ (HoldsVc(ty) => ~judged)

\* a container of a plain Vc, judged unsafe
C6_Witness == ty = App1("Option", App1("Vc", Leaf("u32"))) /\ ~judged

\* C7 as stated: a Resolved Handle of any value type is judged safe.
C7_Original ==
    (ty.con = "ResolvedVc" /\ ty.args[1].con \in ValueTypeLeaves) => judged

\* C7 as amended: a Resolved Handle of T is judged safe exactly when T is.
C7_ResolvedVcSafe ==
    ty.con = "ResolvedVc" => (judged <=> ResolvedValue(ty.args[1]))

\* a Resolved Handle of a value type that is not safe, judged unsafe
C7_Witness == ty = App1("ResolvedVc", Leaf("PlainValue")) /\ ~judged

\* C8: all settled casts of one cell to one target have the same outcome, equal
\* handles when they match, and casts of cells that store the same concrete
\* type to one target have the same kind of outcome.
C8_Idempotent ==
    \A i \in Settled, j \in Settled :
        /\ (calls[i].this.node.cell = calls[j].this.node.cell /\ calls[i].K = calls[j].K)
           => calls[i].out = calls[j].out
        /\ (Stored(i) /\ Stored(j) /\ CellOf(i).tag = CellOf(j).tag /\ calls[i].K = calls[j].K)
           => calls[i].out.kind = calls[j].out.kind

\* two casts of one cell to one target have both matched
C8_Witness ==
    \E i \in Settled, j \in Settled :
        /\ i # j
        /\ calls[i].this.node.cell = calls[j].this.node.cell
        /\ calls[i].K = calls[j].K
        /\ calls[i].out.kind = "Some"
        /\ calls[j].out.kind = "Some"

\* C9: a call settles once: it goes from pending to settled with an outcome,
\* a settled call never changes again, and a pending call shows no outcome.
C9_SettlesOnce ==
    [][\A i \in CallIds :
        /\ calls[i].state = "settled" => calls'[i] = calls[i]
        /\ calls[i].state = "pending" => calls[i].out = Pending
        /\ calls'[i].state = "pending" => calls'[i].out = Pending
        /\ (calls'[i].state = "settled" /\ calls[i].state # "settled") =>
               /\ calls[i].state = "pending"
               /\ calls'[i].out.kind \in {"Some", "None", "Err"}
               /\ calls'[i] = [calls[i] EXCEPT !.state = "settled", !.out = calls'[i].out]]_vars

\* one call has settled while another is still pending
C9_Witness ==
    \E i \in CallIds, j \in CallIds :
        /\ calls[i].state = "settled"
        /\ calls[j].state = "pending"

\* C10: issuing a call and dropping it before it settles change nothing but the
\* call's own slot: the cells, the handles and every other call stay as they
\* are.
C10_CancelFrame ==
    [][\A i \in CallIds :
        (\/ calls[i].state = "pending" /\ calls'[i].state = "cancelled"
         \/ calls[i].state = "idle" /\ calls'[i].state = "pending")
        => /\ UNCHANGED <<cells, handles, made>>
           /\ \A j \in CallIds \ {i} : calls'[j] = calls[j]]_vars

\* a call was dropped while another call still waits for a running task
C10_Witness ==
    \E i \in CallIds, j \in CallIds :
        /\ calls[i].state = "cancelled"
        /\ calls[j].state = "pending"
        /\ CellOf(j).status = "pending"
====
